---- MODULE Spec2Model ----
(***************************************************************************)
(* A model of the trexp crate: the change-tracking wrapper Rewrite         *)
(* (src/rewrite.rs), the effect-sequencing trait Bind (src/bind.rs) and    *)
(* the bottom-up traversal TreeWalk::bottom_up (src/tree.rs).              *)
(*                                                                         *)
(* A closure `f` passed to a combinator is a function value; applying it   *)
(* is Call(f, x), which yields f's result together with the record of the  *)
(* application, so that "how often, on what, in which order was f run" is  *)
(* part of what every combinator returns.                                  *)
(***************************************************************************)
EXTENDS Integers, Sequences, FiniteSets, TLC

VARIABLES
    op,         \* the operation the program runs
    pc,         \* position inside that operation
    f,          \* the closure handed to the operation
    input,      \* the operation's argument
    val,        \* `val` of repeat / try_repeat
    iter,       \* from_iter: the items not yet pulled from the iterator
    is_dirty,   \* from_iter: the flag of the same name
    collected,  \* from_iter: the collection built so far
    stack,      \* bottom_up: the frames of `go`, innermost last
    calls,      \* the applications of f so far: <<[arg, res], ...>>
    result      \* what the operation returned

vars == <<op, pc, f, input, val, iter, is_dirty, collected, stack, calls, result>>

----------------------------------------------------------------------------
(* Bounds of the model                                                      *)

MaxPayload == 2
MaxLen == 3

Payload == 0..MaxPayload
Errors == {"e1", "e2"}

----------------------------------------------------------------------------
(* Values                                                                   *)

Clean(t) == [tag |-> "Clean", val |-> t]
Dirty(t) == [tag |-> "Dirty", val |-> t]
Ok(t) == [ok |-> TRUE, val |-> t]
Err(e) == [ok |-> FALSE, err |-> e]

RewriteOf(S) == {Clean(t) : t \in S} \cup {Dirty(t) : t \in S}
ResultOf(S) == {Ok(t) : t \in S} \cup {Err(e) : e \in Errors}

None == [none |-> TRUE]
NoFn == <<>>

is_clean(self) == self.tag = "Clean"
is_dirty_of(self) == self.tag = "Dirty"
into_inner(self) == self.val

\* One application of the closure f to x.
Call(fn, x) == [out |-> fn[x], applied |-> <<[arg |-> x, res |-> fn[x]]>>]

\* Rewrite::map: fn applied to the payload, the tag kept.
map(self, fn) ==
    LET c == Call(fn, self.val)
    IN  [out |-> [tag |-> self.tag, val |-> c.out], applied |-> c.applied]

\* The constructors Clean and Dirty used as the function of a map, on x.
CleanFn(x) == [t \in {x} |-> Clean(t)]
DirtyFn(x) == [t \in {x} |-> Dirty(t)]

----------------------------------------------------------------------------
(* Rewrite::bind, Rewrite::try_bind and the four Bind instances             *)

bind_forgets(self, fn) == Call(fn, self.val)

bind(self, fn) ==
    LET c == Call(fn, self.val)
    IN  IF is_clean(self)
        THEN c
        ELSE [out |-> Dirty(into_inner(c.out)), applied |-> c.applied]

try_bind_forgets(self, fn) == Call(fn, self.val)

try_bind(self, fn) ==
    LET c == Call(fn, self.val)
    IN  IF is_clean(self)
        THEN c
        ELSE IF c.out.ok
             THEN [out |-> Ok(Dirty(into_inner(c.out.val))), applied |-> c.applied]
             ELSE [out |-> Err(c.out.err), applied |-> c.applied]

bind_mut_Identity_noop(wrapped, fn) == [out |-> wrapped, applied |-> <<>>]

bind_mut_Identity(wrapped, fn) == Call(fn, wrapped)

bind_mut_Result_ignores_err(wrapped, fn) ==
    IF wrapped.ok
    THEN LET c == Call(fn, wrapped.val)
         IN  [out |-> IF c.out.ok THEN c.out ELSE wrapped, applied |-> c.applied]
    ELSE [out |-> Err(wrapped.err), applied |-> <<>>]

bind_mut_Result(wrapped, fn) ==
    IF wrapped.ok
    THEN Call(fn, wrapped.val)
    ELSE [out |-> Err(wrapped.err), applied |-> <<>>]

bind_mut_Rewrite_keeps(wrapped, fn) ==
    LET c == Call(fn, wrapped.val)
    IN  [out |-> [tag |-> wrapped.tag, val |-> c.out.val], applied |-> c.applied]

bind_mut_Rewrite(wrapped, fn) == bind(wrapped, fn)

bind_mut_ResultRewrite(wrapped, fn) ==
    IF wrapped.ok
    THEN try_bind(wrapped.val, fn)
    ELSE [out |-> Err(wrapped.err), applied |-> <<>>]

----------------------------------------------------------------------------
(* Rewrite<Rewrite<T>>::transpose and Rewrite<Result<T, E>>::transpose_result *)

transpose_flatten(self) == map(self.val, CleanFn(self.val.val)).out

transpose(self) ==
    IF is_clean(self)
    THEN map(self.val, CleanFn(self.val.val)).out
    ELSE map(self.val, DirtyFn(self.val.val)).out

transpose_result(self) ==
    IF self.val.ok
    THEN Ok([tag |-> self.tag, val |-> self.val.val])
    ELSE Err(self.val.err)

----------------------------------------------------------------------------
(* The single-call operations                                               *)

Ops == {"bind", "try_bind", "bind_mut_identity", "bind_mut_result",
        "bind_mut_rewrite", "bind_mut_result_rewrite", "transpose", "from_iter"}

RECURSIVE SeqsUpTo(_, _)
SeqsUpTo(S, n) ==
    IF n = 0 THEN {<<>>}
    ELSE LET shorter == SeqsUpTo(S, n - 1)
         IN  shorter \cup {Append(s, x) : s \in {t \in shorter : Len(t) = n - 1}, x \in S}

FnsFor(o) ==
    CASE o \in {"bind", "bind_mut_rewrite"} -> [Payload -> RewriteOf(Payload)]
      [] o \in {"try_bind", "bind_mut_result_rewrite"} ->
            [Payload -> ResultOf(RewriteOf(Payload))]
      [] o = "bind_mut_identity" -> [Payload -> Payload]
      [] o = "bind_mut_result" -> [Payload -> ResultOf(Payload)]
      [] OTHER -> {NoFn}

InputsFor(o) ==
    CASE o \in {"bind", "bind_mut_rewrite", "try_bind"} -> RewriteOf(Payload)
      [] o = "bind_mut_result_rewrite" -> ResultOf(RewriteOf(Payload))
      [] o = "bind_mut_identity" -> Payload
      [] o = "bind_mut_result" -> ResultOf(Payload)
      [] o = "transpose" -> RewriteOf(RewriteOf(Payload))
      [] o = "from_iter" -> SeqsUpTo(RewriteOf(Payload), MaxLen)

Idle ==
    /\ val = None
    /\ stack = <<>>

Init ==
    /\ op \in Ops
    /\ pc = "start"
    /\ f \in FnsFor(op)
    /\ input \in InputsFor(op)
    /\ iter = IF op = "from_iter" THEN input ELSE <<>>
    /\ is_dirty = FALSE
    /\ collected = <<>>
    /\ calls = <<>>
    /\ result = None
    /\ Idle

Return(r) ==
    /\ result' = r.out
    /\ calls' = calls \o r.applied
    /\ pc' = "done"
    /\ UNCHANGED <<op, f, input, val, iter, is_dirty, collected, stack>>

DoBind ==
    /\ op = "bind" /\ pc = "start"
    /\ Return(bind(input, f))

DoTryBind ==
    /\ op = "try_bind" /\ pc = "start"
    /\ Return(try_bind(input, f))

DoBindMutIdentity ==
    /\ op = "bind_mut_identity" /\ pc = "start"
    /\ Return(bind_mut_Identity(input, f))

DoBindMutResult ==
    /\ op = "bind_mut_result" /\ pc = "start"
    /\ Return(bind_mut_Result(input, f))

DoBindMutRewrite ==
    /\ op = "bind_mut_rewrite" /\ pc = "start"
    /\ Return(bind_mut_Rewrite(input, f))

DoBindMutResultRewrite ==
    /\ op = "bind_mut_result_rewrite" /\ pc = "start"
    /\ Return(bind_mut_ResultRewrite(input, f))

\* transpose, applied to the input and then once more to its own result.
DoTranspose ==
    /\ op = "transpose"
    /\ \/ /\ pc = "start"
          /\ result' = transpose(input)
          /\ pc' = "once"
       \/ /\ pc = "once"
          /\ result' = transpose(result)
          /\ pc' = "done"
    /\ UNCHANGED <<op, f, input, val, iter, is_dirty, collected, stack, calls>>

\* from_iter: collect() pulls one item through inspect and map.
inspect_last_only(flag, item) == is_dirty_of(item)

inspect(flag, item) == flag \/ is_dirty_of(item)

FromIterNext ==
    /\ op = "from_iter" /\ pc = "start"
    /\ iter # <<>>
    /\ is_dirty' = inspect(is_dirty, Head(iter))
    /\ collected' = Append(collected, into_inner(Head(iter)))
    /\ iter' = Tail(iter)
    /\ UNCHANGED <<op, pc, f, input, val, stack, calls, result>>

FromIterFinish ==
    /\ op = "from_iter" /\ pc = "start"
    /\ iter = <<>>
    /\ result' = IF is_dirty THEN Dirty(collected) ELSE Clean(collected)
    /\ pc' = "done"
    /\ UNCHANGED <<op, f, input, val, iter, is_dirty, collected, stack, calls>>

Next ==
    \/ DoBind
    \/ DoTryBind
    \/ DoBindMutIdentity
    \/ DoBindMutResult
    \/ DoBindMutRewrite
    \/ DoBindMutResultRewrite
    \/ DoTranspose
    \/ FromIterNext
    \/ FromIterFinish

Spec == Init /\ [][Next]_vars

----------------------------------------------------------------------------
(* Rewrite::repeat and Rewrite::try_repeat                                  *)

MaxN == 24
MaxLog == 6

IntRange == (-MaxN)..MaxN

\* i32 `%` and `/` by 2: the remainder takes the dividend's sign, the
\* quotient truncates towards zero.
rem2(n) == IF n >= 0 THEN n % 2 ELSE -((-n) % 2)
div2(n) == IF n >= 0 THEN n \div 2 ELSE -((-n) \div 2)

\* The doc example's transform.
halve_even(n) == IF rem2(n) = 0 THEN Dirty(div2(n)) ELSE Clean(n)

halve_even_fn == [n \in IntRange |-> halve_even(n)]

\* One pass through the body of repeat's loop: brk says whether it broke
\* out, out is the value broken with or the next `val`.
repeat_body_resets(v, fn) ==
    LET m == map(v, fn)
        t == transpose(m.out)
    IN  IF is_clean(t)
        THEN [brk |-> TRUE, out |-> t.val, applied |-> m.applied]
        ELSE [brk |-> FALSE, out |-> Clean(into_inner(t.val)), applied |-> m.applied]

repeat_body_capped(v, fn) ==
    LET m == map(v, fn)
        t == transpose(m.out)
    IN  IF is_clean(t) \/ is_dirty_of(v)
        THEN [brk |-> TRUE, out |-> Dirty(into_inner(t.val)), applied |-> m.applied]
        ELSE [brk |-> FALSE, out |-> Dirty(into_inner(t.val)), applied |-> m.applied]

repeat_body(v, fn) ==
    LET m == map(v, fn)
        t == transpose(m.out)
    IN  IF is_clean(t)
        THEN [brk |-> TRUE, out |-> t.val, applied |-> m.applied]
        ELSE [brk |-> FALSE, out |-> Dirty(into_inner(t.val)), applied |-> m.applied]

try_repeat_body_keeps_progress(v, fn) ==
    LET m == map(v, fn)
        r == transpose_result(m.out)
    IN  IF ~r.ok
        THEN [brk |-> TRUE, out |-> Ok(v), applied |-> m.applied]
        ELSE LET t == transpose(r.val)
             IN  IF is_clean(t)
                 THEN [brk |-> TRUE, out |-> Ok(t.val), applied |-> m.applied]
                 ELSE [brk |-> FALSE, out |-> Dirty(into_inner(t.val)),
                       applied |-> m.applied]

try_repeat_body(v, fn) ==
    LET m == map(v, fn)
        r == transpose_result(m.out)
    IN  IF ~r.ok
        THEN [brk |-> TRUE, out |-> Err(r.err), applied |-> m.applied]
        ELSE LET t == transpose(r.val)
             IN  IF is_clean(t)
                 THEN [brk |-> TRUE, out |-> Ok(t.val), applied |-> m.applied]
                 ELSE [brk |-> FALSE, out |-> Dirty(into_inner(t.val)),
                       applied |-> m.applied]

\* repeat as a whole, for at most `fuel` passes (None when they do not suffice).
RECURSIVE repeat_loop(_, _, _)
repeat_loop(v, fn, fuel) ==
    IF fuel = 0 THEN None
    ELSE LET b == repeat_body(v, fn)
         IN  IF b.brk THEN b.out ELSE repeat_loop(b.out, fn, fuel - 1)

repeat(initial, fn) == repeat_loop(Clean(initial), fn, MaxLog)

\* The log keeps the first MaxLog applications.
Log(applied) == IF Len(calls) < MaxLog THEN calls \o applied ELSE calls

RepeatFns == [Payload -> RewriteOf(Payload)] \cup {halve_even_fn}
TryRepeatFns == [Payload -> ResultOf(RewriteOf(Payload))]

InitLoop(o, fns) ==
    /\ op = o
    /\ pc = "start"
    /\ f \in fns
    /\ input \in DOMAIN f
    /\ val = None
    /\ iter = <<>>
    /\ is_dirty = FALSE
    /\ collected = <<>>
    /\ stack = <<>>
    /\ calls = <<>>
    /\ result = None

LoopStart ==
    /\ pc = "start"
    /\ val' = Clean(input)
    /\ pc' = "loop"
    /\ UNCHANGED <<op, f, input, iter, is_dirty, collected, stack, calls, result>>

LoopIter(b) ==
    /\ calls' = Log(b.applied)
    /\ IF b.brk
       THEN /\ result' = b.out
            /\ pc' = "done"
            /\ UNCHANGED val
       ELSE /\ val' = b.out
            /\ UNCHANGED <<pc, result>>
    /\ UNCHANGED <<op, f, input, iter, is_dirty, collected, stack>>

RepeatStart ==
    /\ op = "repeat"
    /\ LoopStart

RepeatIter ==
    /\ op = "repeat" /\ pc = "loop"
    /\ LoopIter(repeat_body(val, f))

TryRepeatStart ==
    /\ op = "try_repeat"
    /\ LoopStart

TryRepeatIter ==
    /\ op = "try_repeat" /\ pc = "loop"
    /\ LoopIter(try_repeat_body(val, f))

InitRepeat == InitLoop("repeat", RepeatFns) \/ InitLoop("try_repeat", TryRepeatFns)

NextRepeat ==
    \/ RepeatStart
    \/ RepeatIter
    \/ TryRepeatStart
    \/ TryRepeatIter

SpecRepeat == InitRepeat /\ [][NextRepeat]_vars

\* repeat alone, run to the end: straight-line code keeps taking its next step.
NextRepeatOnly ==
    \/ RepeatStart
    \/ RepeatIter

FairRepeat ==
    /\ InitLoop("repeat", RepeatFns)
    /\ [][NextRepeatOnly]_vars
    /\ WF_vars(RepeatStart)
    /\ WF_vars(RepeatIter)

----------------------------------------------------------------------------
(* Properties of the single-call operations (under Spec)                    *)

Last(s) == s[Len(s)]

\* C1: a.bind(f), and bind_mut for the Rewrite effect, apply f exactly once,
\* to a's payload; the payload of the result is the one f returned; the
\* result is Dirty when a is Dirty, and carries f's tag when a is Clean.
C1_BindTagStickiness ==
    (op \in {"bind", "bind_mut_rewrite"} /\ pc = "done") =>
        LET fr == f[input.val]
        IN  /\ calls = <<[arg |-> input.val, res |-> fr]>>
            /\ result.val = fr.val
            /\ (is_dirty_of(input) => is_dirty_of(result))
            /\ (is_clean(input) => result.tag = fr.tag)

C1_Witness ==
    /\ op = "bind_mut_rewrite" /\ pc = "done"
    /\ is_dirty_of(input)
    /\ is_clean(f[input.val])
    /\ f[input.val].val # input.val
    /\ result = Dirty(f[input.val].val)

\* C8: collecting Rewrite items gives Dirty iff some item is Dirty, and the
\* payloads of all items in the source order; no Dirty item (also no item
\* at all) gives Clean.
C8_CollectionConvergence ==
    (op = "from_iter" /\ pc = "done") =>
        /\ is_dirty_of(result) <=> (\E i \in 1..Len(input) : is_dirty_of(input[i]))
        /\ is_clean(result) <=> (\A i \in 1..Len(input) : is_clean(input[i]))
        /\ result.val = [i \in 1..Len(input) |-> input[i].val]

C8_Witness ==
    /\ op = "from_iter" /\ pc = "done"
    /\ Len(input) = MaxLen
    /\ is_dirty_of(input[1])
    /\ \A i \in 2..Len(input) : is_clean(input[i])
    /\ input[1].val # input[2].val
    /\ is_dirty_of(result)

\* C9: transpose swaps the outer and the inner tag and keeps the payload;
\* applied twice it gives the value back.
C9_TransposeInvolution ==
    (op = "transpose") =>
        /\ pc = "once" =>
              /\ result.tag = input.val.tag
              /\ result.val.tag = input.tag
              /\ result.val.val = input.val.val
        /\ pc = "done" => result = input

C9_Witness ==
    /\ op = "transpose" /\ pc = "once"
    /\ input = Dirty(Clean(1))
    /\ result = Clean(Dirty(1))

\* C10: bind_mut for Result<Rewrite<T>, E>: an Err wrapped value is returned
\* as it is and step is not applied; step's Err is returned whatever the tag
\* of the wrapped value; otherwise the result is Ok with step's payload,
\* Dirty exactly when the wrapped value or step's result is Dirty.
C10_CombinedSequencing ==
    (op = "bind_mut_result_rewrite" /\ pc = "done") =>
        IF ~input.ok
        THEN /\ result = Err(input.err)
             /\ calls = <<>>
        ELSE LET r == input.val
                 s == f[r.val]
             IN  /\ calls = <<[arg |-> r.val, res |-> s]>>
                 /\ ~s.ok => result = Err(s.err)
                 /\ s.ok =>
                       /\ result.ok
                       /\ result.val.val = s.val.val
                       /\ is_dirty_of(result.val) <=>
                             (is_dirty_of(r) \/ is_dirty_of(s.val))

C10_Witness ==
    /\ op = "bind_mut_result_rewrite" /\ pc = "done"
    /\ input.ok /\ is_dirty_of(input.val)
    /\ f[input.val.val].ok /\ is_clean(f[input.val.val].val)
    /\ result.ok /\ is_dirty_of(result.val)

----------------------------------------------------------------------------
(* Properties of repeat and try_repeat (under SpecRepeat and FairRepeat)    *)

\* Whether the chain x, f(x).payload, ... meets a Clean result within n
\* applications.
RECURSIVE ReachesClean(_, _, _)
ReachesClean(fn, x, n) ==
    IF n = 0 THEN FALSE
    ELSE IF is_clean(fn[x]) THEN TRUE
    ELSE ReachesClean(fn, fn[x].val, n - 1)

EventuallyClean == ReachesClean(f, input, Cardinality(DOMAIN f))

\* C2: repeat applies f to initial and then to the payload of the previous
\* result; it stops at the first Clean result and returns that payload,
\* Dirty iff an earlier application returned Dirty; with halve_even,
\* repeat(10) = Dirty(5), repeat(24) = Dirty(3), repeat(7) = Clean(7).
C2_RepeatResult ==
    (op = "repeat" /\ Len(calls) < MaxLog) =>
        LET n == Len(calls)
        IN  /\ n >= 1 => calls[1].arg = input
            /\ \A i \in 2..n : calls[i].arg = calls[i - 1].res.val
            /\ \A i \in 1..(n - 1) : is_dirty_of(calls[i].res)
            /\ pc = "done" =>
                  /\ n >= 1
                  /\ is_clean(calls[n].res)
                  /\ result.val = calls[n].res.val
                  /\ result.tag = IF n - 1 >= 1 THEN "Dirty" ELSE "Clean"
                  /\ (f = halve_even_fn /\ input = 10) => result = Dirty(5)
                  /\ (f = halve_even_fn /\ input = 24) => result = Dirty(3)
                  /\ (f = halve_even_fn /\ input = 7) => result = Clean(7)

C2_Witness ==
    /\ op = "repeat" /\ pc = "done"
    /\ f = halve_even_fn /\ input = 24
    /\ Len(calls) = 4
    /\ result = Dirty(3)

\* C3: repeat returns only on a Clean result of f and applies f no more
\* after it; when the chain from initial meets a Clean result the loop
\* returns, and when it never does the loop never returns: the next
\* iteration is always possible.
C3_RepeatTermination ==
    /\ [](EventuallyClean => <>(pc = "done"))
    /\ [](~EventuallyClean => pc # "done")
    /\ [](pc = "done" => (calls # <<>> /\ is_clean(Last(calls).res)))
    /\ [][(calls # <<>> /\ is_clean(Last(calls).res)) => calls' = calls]_vars
    /\ [](pc = "loop" => ENABLED RepeatIter)

C3_Witness ==
    /\ op = "repeat" /\ pc = "loop"
    /\ f = halve_even_fn /\ input = 0
    /\ Len(calls) = MaxLog
    /\ \A i \in 1..Len(calls) : calls[i] = [arg |-> 0, res |-> Dirty(0)]

\* The infallible transform that agrees with fn wherever fn succeeds.
Infallible(fn) == [x \in DOMAIN fn |-> IF fn[x].ok THEN fn[x].val ELSE Clean(x)]

\* C4: try_repeat stops at the first application of f that fails and
\* returns that Err, nothing of the iterations before it; when no
\* application fails it returns Ok of what repeat returns for the
\* infallible f.
C4_TryRepeat ==
    (op = "try_repeat" /\ Len(calls) < MaxLog) =>
        LET n == Len(calls)
        IN  /\ \A i \in 1..(n - 1) : calls[i].res.ok /\ is_dirty_of(calls[i].res.val)
            /\ (n >= 1 /\ ~calls[n].res.ok) =>
                  (pc = "done" /\ result = Err(calls[n].res.err))
            /\ pc = "done" =>
                  /\ n >= 1
                  /\ calls[n].res.ok =>
                        result = Ok(repeat(input, Infallible(f)))
                  /\ ~calls[n].res.ok => result = calls[n].res

C4_Witness ==
    /\ op = "try_repeat" /\ pc = "done"
    /\ Len(calls) = 3
    /\ calls[1].res.ok /\ calls[2].res.ok
    /\ result = Err("e2")

----------------------------------------------------------------------------
(* TreeWalk::bottom_up                                                      *)

MaxNodes == 5

Marks == {"m1", "m2"}

\* The shapes of the forests of k nodes; a tree's shape is the sequence of
\* the shapes of its children.
RECURSIVE ForestsOf(_)
ForestsOf(k) ==
    IF k = 0 THEN {<<>>}
    ELSE UNION {{<<t>> \o rest : t \in ForestsOf(j - 1), rest \in ForestsOf(k - j)} :
                j \in 1..k}

\* A node carries its path from the root as its identity and a mark that
\* transforms rewrite.
RECURSIVE Build(_, _)
Build(shape, path) ==
    [id |-> path, mark |-> "m0",
     children |-> [i \in 1..Len(shape) |-> Build(shape[i], Append(path, i))]]

Trees == {Build(shape, <<>>) : shape \in UNION {ForestsOf(n - 1) : n \in 1..MaxNodes}}

Remark(node, m) == [node EXCEPT !.mark = m]

TreeOps == {"bottom_up_identity", "bottom_up_result", "bottom_up_rewrite"}

\* What a transform may return for the node x, per effect.
Outcomes(o, x) ==
    CASE o = "bottom_up_identity" -> {Remark(x, m) : m \in Marks}
      [] o = "bottom_up_result" -> ResultOf({Remark(x, m) : m \in Marks})
      [] o = "bottom_up_rewrite" -> RewriteOf({Remark(x, m) : m \in Marks})

\* Bind::bind_mut, resolved by the effect type FS.
bind_mut(o, wrapped, fn) ==
    CASE o = "bottom_up_identity" -> bind_mut_Identity(wrapped, fn)
      [] o = "bottom_up_result" -> bind_mut_Result(wrapped, fn)
      [] o = "bottom_up_rewrite" -> bind_mut_Rewrite(wrapped, fn)

\* The frame of one call of `go`: the branch, and where its each_branch is.
Frame(branch) ==
    [node |-> branch, next |-> 1, kids |-> <<>>, dirty |-> FALSE, failed |-> None]

\* each_branch has handed every child to its step, or has given up.
HookDone(fr) == fr.failed # None \/ fr.next > Len(fr.node.children)

\* each_branch takes the step's result for the child it handed out.
HookAbsorb(o, fr, r) ==
    CASE o = "bottom_up_identity" ->
            [fr EXCEPT !.next = @ + 1, !.kids = Append(@, r)]
      [] o = "bottom_up_result" ->
            IF r.ok
            THEN [fr EXCEPT !.next = @ + 1, !.kids = Append(@, r.val)]
            ELSE [fr EXCEPT !.failed = r]
      [] o = "bottom_up_rewrite" ->
            [fr EXCEPT !.next = @ + 1, !.kids = Append(@, into_inner(r)),
                       !.dirty = @ \/ is_dirty_of(r)]

\* What each_branch returns: the node reassembled around the new children.
each_branch(o, fr) ==
    LET node == [fr.node EXCEPT !.children = fr.kids]
    IN  CASE o = "bottom_up_identity" -> node
          [] o = "bottom_up_result" -> IF fr.failed # None THEN fr.failed ELSE Ok(node)
          [] o = "bottom_up_rewrite" -> IF fr.dirty THEN Dirty(node) ELSE Clean(node)

\* The node a wrapped value holds, if it holds one.
HasNode(o, wrapped) == o = "bottom_up_result" => wrapped.ok
NodeOf(o, wrapped) == IF o = "bottom_up_identity" THEN wrapped ELSE wrapped.val

InitTree ==
    /\ op \in TreeOps
    /\ pc = "start"
    /\ f = NoFn
    /\ input \in Trees
    /\ val = None
    /\ iter = <<>>
    /\ is_dirty = FALSE
    /\ collected = <<>>
    /\ stack = <<>>
    /\ calls = <<>>
    /\ result = None

\* bottom_up calls go on the root.
BottomUp ==
    /\ op \in TreeOps /\ pc = "start"
    /\ stack' = <<Frame(input)>>
    /\ pc' = "walk"
    /\ UNCHANGED <<op, f, input, val, iter, is_dirty, collected, calls, result>>

\* each_branch calls its step on the next child: go is entered for it.
GoChild ==
    /\ pc = "walk"
    /\ LET fr == Last(stack)
       IN  /\ ~HookDone(fr)
           /\ stack' = Append(stack, Frame(fr.node.children[fr.next]))
    /\ UNCHANGED <<op, pc, f, input, val, iter, is_dirty, collected, calls, result>>

\* each_branch has returned: go binds f onto its result and returns, to the
\* each_branch of the parent or to bottom_up's caller.  f is the graph of the
\* transform as far as it has been applied; a node it has not met yet gets
\* any outcome.
GoBind ==
    /\ pc = "walk"
    /\ HookDone(Last(stack))
    /\ LET rest_transformed == each_branch(op, Last(stack))
           x == NodeOf(op, rest_transformed)
           outcomes == IF ~HasNode(op, rest_transformed) THEN {None}
                       ELSE IF x \in DOMAIN f THEN {f[x]}
                       ELSE Outcomes(op, x)
       IN  \E fres \in outcomes :
             LET fn == IF HasNode(op, rest_transformed) THEN (x :> fres) @@ f ELSE f
                 r == bind_mut(op, rest_transformed, fn)
             IN  /\ f' = IF r.applied = <<>> THEN f ELSE fn
                 /\ calls' = calls \o r.applied
                 /\ IF Len(stack) = 1
                    THEN /\ result' = r.out
                         /\ pc' = "done"
                         /\ stack' = <<>>
                    ELSE /\ stack' = Append(SubSeq(stack, 1, Len(stack) - 2),
                                            HookAbsorb(op, stack[Len(stack) - 1], r.out))
                         /\ UNCHANGED <<pc, result>>
    /\ UNCHANGED <<op, input, val, iter, is_dirty, collected>>

NextTree ==
    \/ BottomUp
    \/ GoChild
    \/ GoBind

SpecTree == InitTree /\ [][NextTree]_vars

----------------------------------------------------------------------------
(* Properties of bottom_up (under SpecTree)                                 *)

\* The identities of the nodes of a tree in post-order.
RECURSIVE PostOrderFrom(_, _)
PostOrderFrom(node, i) ==
    IF i > Len(node.children) THEN <<node.id>>
    ELSE PostOrderFrom(node.children[i], 1) \o PostOrderFrom(node, i + 1)

PostOrder(node) == PostOrderFrom(node, 1)

\* The applications of f so far are the first nodes of the post-order.
VisitsInPostOrder ==
    /\ Len(calls) <= Len(PostOrder(input))
    /\ \A i \in 1..Len(calls) : calls[i].arg.id = PostOrder(input)[i]

IsProperPrefix(p, q) == Len(p) < Len(q) /\ SubSeq(q, 1, Len(p)) = p

\* C5: bottom_up applies f exactly once to every node, to a node only after
\* all its descendants, and hands f the node with every child replaced by
\* what f returned for that child.
C5_PostOrder ==
    (op = "bottom_up_identity") =>
        LET po == PostOrder(input)
            n == Len(calls)
        IN  /\ VisitsInPostOrder
            /\ \A i \in 1..n : \A k \in 1..Len(po) :
                  IsProperPrefix(calls[i].arg.id, po[k]) =>
                      \E j \in 1..(i - 1) : calls[j].arg.id = po[k]
            /\ \A i \in 1..n :
                  /\ Cardinality({k \in 1..Len(po) :
                        Len(po[k]) = Len(calls[i].arg.id) + 1
                        /\ IsProperPrefix(calls[i].arg.id, po[k])})
                        = Len(calls[i].arg.children)
                  /\ \A c \in 1..Len(calls[i].arg.children) :
                        \E j \in 1..(i - 1) :
                            /\ calls[j].arg.id = Append(calls[i].arg.id, c)
                            /\ calls[i].arg.children[c] = calls[j].res
            /\ pc = "done" =>
                  /\ n = Len(po)
                  /\ result = calls[n].res

C5_Witness ==
    /\ op = "bottom_up_identity" /\ pc = "done"
    /\ Len(calls) = MaxNodes
    /\ Len(input.children) = 2
    /\ calls[1].arg.id = <<1, 1>>
    /\ calls[2].arg.children = <<Remark(calls[1].arg, "m2")>>
    /\ result.mark = "m1"

\* C6: under Result, once f returns Err for a node, f is applied to no node
\* after it in post-order and bottom_up returns that Err; f has then been
\* applied as often as the failing node's position in the post-order says.
C6_ShortCircuit ==
    (op = "bottom_up_result") =>
        LET po == PostOrder(input)
            n == Len(calls)
        IN  /\ VisitsInPostOrder
            /\ \A i \in 1..(n - 1) : calls[i].res.ok
            /\ pc = "done" =>
                  /\ n >= 1
                  /\ result = calls[n].res
                  /\ result.ok => n = Len(po)

C6_Witness ==
    /\ op = "bottom_up_result" /\ pc = "done"
    /\ Len(PostOrder(input)) = MaxNodes
    /\ Len(calls) = 2
    /\ calls[2].arg.id = <<1>>
    /\ result = Err("e1")

\* C7: under Rewrite, when f returns Dirty for any node of the tree, leaf,
\* inner node or root, bottom_up returns Dirty.
C7_RootChangePropagation ==
    (op = "bottom_up_rewrite" /\ pc = "done") =>
        /\ Len(calls) = Len(PostOrder(input))
        /\ (\E i \in 1..Len(calls) : is_dirty_of(calls[i].res)) => is_dirty_of(result)

C7_Witness ==
    /\ op = "bottom_up_rewrite" /\ pc = "done"
    /\ Len(calls) = MaxNodes
    /\ is_dirty_of(calls[1].res)
    /\ calls[1].arg.id = <<1, 1>>
    /\ \A i \in 2..Len(calls) : is_clean(calls[i].res)
    /\ is_dirty_of(result)

====
